---------------------------- MODULE Spec2Model ----------------------------
(***************************************************************************)
(* The request framing and parsing pipeline of src/main.py: one connection *)
(* handled by handler(reader, writer), with the peer that feeds the        *)
(* StreamReader.  Bytes are one-character strings; a bytes object is a     *)
(* sequence of them.  xFF stands for the byte 0xFF, which no UTF-8 text    *)
(* contains, so decoding a bytes object that holds it fails.               *)
(***************************************************************************)
EXTENDS Naturals, Integers, Sequences, FiniteSets, TLC

(***************************************************************************)
(* Bounds of the model.                                                    *)
(***************************************************************************)
\* the longest header block the peer sends, in header lines
MaxHeaders == 3
\* the longest run of plain body bytes the peer sends after the blank line
MaxBody == 3
\* the number of bytes that reach the StreamReader in one delivery
ChunkLen == 24

\* the connections handled at the same time
MaxConnections == 2

(***************************************************************************)
(* Bytes and text.                                                         *)
(***************************************************************************)
CR == "\r"
LF == "\n"
xFF == "xFF"
CRLF == <<CR, LF>>

ENCODING == "utf8"

\* str.strip() removes these from both ends
Whitespace == {" ", "\t", CR, LF}

UpperCase == <<"A", "B", "C", "D", "E", "F", "G", "H", "I", "J", "K", "L", "M",
               "N", "O", "P", "Q", "R", "S", "T", "U", "V", "W", "X", "Y", "Z">>
LowerCase == <<"a", "b", "c", "d", "e", "f", "g", "h", "i", "j", "k", "l", "m",
               "n", "o", "p", "q", "r", "s", "t", "u", "v", "w", "x", "y", "z">>
Digits == <<"0", "1", "2", "3", "4", "5", "6", "7", "8", "9">>

Min(a, b) == IF a <= b THEN a ELSE b

Drop(bs, n) == SubSeq(bs, n + 1, Len(bs))

Take(bs, n) == SubSeq(bs, 1, n)

RECURSIVE Concat(_)
Concat(ss) == IF ss = <<>> THEN <<>> ELSE Head(ss) \o Concat(Tail(ss))

\* sub occurs in bs at index i
MatchAt(bs, sub, i) == \A k \in 1..Len(sub) : bs[i + k - 1] = sub[k]

\* bytes.find(sub): the first index at which sub starts, 0 when it does not occur
Find(bs, sub) ==
    LET at == {i \in 1..(Len(bs) - Len(sub) + 1) : MatchAt(bs, sub, i)}
    IN  IF at = {} THEN 0 ELSE CHOOSE i \in at : \A j \in at : i <= j

\* bytes.split(sep): every occurrence of sep separates two parts
RECURSIVE SplitAll(_, _)
SplitAll(bs, sep) ==
    LET i == Find(bs, sep)
    IN  IF i = 0 THEN <<bs>>
        ELSE <<Take(bs, i - 1)>> \o SplitAll(Drop(bs, i + Len(sep) - 1), sep)

\* bytes.split(sep, 1): only the first occurrence of sep separates
SplitOnce(bs, sep) ==
    LET i == Find(bs, sep)
    IN  IF i = 0 THEN <<bs>>
        ELSE <<Take(bs, i - 1), Drop(bs, i + Len(sep) - 1)>>

\* bytes.decode("utf8") raises UnicodeDecodeError on a byte that is no UTF-8
CanDecode(bs) == \A i \in 1..Len(bs) : bs[i] # xFF

\* bytes.decode("utf8") of ASCII bytes: the same characters, as text
Decode(bs) == bs

\* str.encode("utf8") of ASCII text
Encode(s) == s

RECURSIVE LStrip(_)
LStrip(s) == IF s # <<>> /\ Head(s) \in Whitespace THEN LStrip(Tail(s)) ELSE s

RECURSIVE RStrip(_)
RStrip(s) ==
    IF s # <<>> /\ s[Len(s)] \in Whitespace THEN RStrip(Take(s, Len(s) - 1)) ELSE s

Strip(s) == RStrip(LStrip(s))

LowerChar(c) ==
    IF \E i \in 1..Len(UpperCase) : UpperCase[i] = c
    THEN LowerCase[CHOOSE i \in 1..Len(UpperCase) : UpperCase[i] = c]
    ELSE c

Lower(s) == [i \in 1..Len(s) |-> LowerChar(s[i])]

IsDigit(c) == \E i \in 1..Len(Digits) : Digits[i] = c

DigitValue(c) == (CHOOSE i \in 1..Len(Digits) : Digits[i] = c) - 1

\* str(n) of a natural number: its decimal digits
RECURSIVE Str(_)
Str(n) == IF n < 10 THEN <<Digits[n + 1]>> ELSE Str(n \div 10) \o <<Digits[(n % 10) + 1]>>

\* the value of a non-empty string of decimal digits
RECURSIVE DigitsValue(_)
DigitsValue(s) ==
    IF s = <<>> THEN 0
    ELSE 10 * DigitsValue(Take(s, Len(s) - 1)) + DigitValue(s[Len(s)])

\* digits, with single underscores allowed between digits
IsIntLiteral(s) ==
    /\ s # <<>>
    /\ IsDigit(s[1])
    /\ IsDigit(s[Len(s)])
    /\ \A i \in 1..Len(s) : IsDigit(s[i]) \/ s[i] = "_"
    /\ \A i \in 1..(Len(s) - 1) : ~(s[i] = "_" /\ s[i + 1] = "_")

\* int(s): [ok |-> FALSE] is ValueError
ParseInt(s) ==
    LET t == Strip(s)
        signed == t # <<>> /\ Head(t) \in {"+", "-"}
        mag == IF signed THEN Tail(t) ELSE t
        val == DigitsValue(SelectSeq(mag, IsDigit))
    IN  IF IsIntLiteral(mag)
        THEN [ok |-> TRUE, val |-> IF signed /\ Head(t) = "-" THEN 0 - val ELSE val]
        ELSE [ok |-> FALSE, val |-> 0]

\* str.isdigit(): non-empty and every character a digit
StrIsDigit(s) == s # <<>> /\ \A i \in 1..Len(s) : IsDigit(s[i])

(***************************************************************************)
(* HTTPStatusCode, HTTPError, HTTPMethod.                                  *)
(***************************************************************************)
HTTP_200_OK == 200
HTTP_400_BAD_REQUEST == 400
HTTP_413_ENTITY_TOO_LARGE == 413
HTTP_500_INTERNAL_SERVER_ERROR == 500

\* HTTPStatusCode.message
StatusMessage(code) ==
    CASE code = HTTP_200_OK -> <<"O", "K">>
      [] code = HTTP_400_BAD_REQUEST ->
            <<"B", "a", "d", " ", "R", "e", "q", "u", "e", "s", "t">>
      [] code = HTTP_413_ENTITY_TOO_LARGE ->
            <<"E", "n", "t", "i", "t", "y", " ", "T", "o", "o", " ", "L", "a", "r", "g", "e">>
      [] code = HTTP_500_INTERNAL_SERVER_ERROR ->
            <<"I", "n", "t", "e", "r", "n", "a", "l", " ", "S", "e", "r", "v", "e", "r",
              " ", "E", "r", "r", "o", "r">>

\* HTTPStatusCode.__str__
StatusStr(code) == Str(code) \o <<" ">> \o StatusMessage(code)

\* no exception in flight
NoExc == [type |-> "none", status |-> 0]

\* HTTPError(http_status_code=code)
HTTPError(code) == [type |-> "HTTPError", status |-> code]

\* any other exception class
OtherExc(class) == [type |-> class, status |-> 0]

HTTPMethod == {<<"G", "E", "T">>, <<"P", "O", "S", "T">>,
               <<"O", "P", "T", "I", "O", "N", "S">>, <<"P", "U", "T">>,
               <<"P", "A", "T", "C", "H">>, <<"D", "E", "L", "E", "T", "E">>}

\* the version marker a request line must end with, its CRLF included
VersionToken == <<"H", "T", "T", "P", "/", "1", ".", "1", CR, LF>>

\* HTTPRequestLine.version, as json.dumps writes the float 1.1
VersionText == <<"1", ".", "1">>

HostName == <<"h", "o", "s", "t">>
ContentLengthName == <<"c", "o", "n", "t", "e", "n", "t", "-", "l", "e", "n", "g", "t", "h">>
\* a faulty variant: an absent body echoed as the empty text
NoneTextEmpty == <<>>

\* the body field of the echo payload when read_body returned None
NoneText == <<"$", "N", "O", "N", "E">>

(***************************************************************************)
(* read_request_line, after its readuntil: what the line parses to.        *)
(***************************************************************************)
ParseRequestLine(request_line) ==
    LET request_line_parts == SplitAll(request_line, <<" ">>)
        bad == [exc |-> HTTPError(HTTP_400_BAD_REQUEST), method |-> <<>>, path |-> <<>>]
    IN  IF Len(request_line_parts) # 3 THEN bad
        ELSE IF ~CanDecode(request_line_parts[1]) THEN bad
        ELSE IF Decode(request_line_parts[1]) \notin HTTPMethod THEN bad
        ELSE IF request_line_parts[3] # VersionToken THEN bad
        ELSE IF ~CanDecode(request_line_parts[2])
             THEN [exc |-> OtherExc("UnicodeDecodeError"), method |-> <<>>, path |-> <<>>]
        ELSE [exc |-> NoExc,
              method |-> Decode(request_line_parts[1]),
              path |-> Decode(request_line_parts[2])]

\* a faulty variant: a header line whose value is empty after trimming is accepted
ParseFieldLineAnyValue(field_line) ==
    LET field_line_parts == SplitOnce(field_line, <<":">>)
        bad == [exc |-> HTTPError(HTTP_400_BAD_REQUEST), name |-> <<>>, value |-> <<>>]
    IN  IF Len(field_line_parts) # 2 THEN bad
        ELSE IF ~CanDecode(field_line_parts[1]) THEN bad
        ELSE IF Lower(Strip(Decode(field_line_parts[1]))) = <<>> THEN bad
        ELSE IF ~CanDecode(field_line_parts[2]) THEN bad
        ELSE [exc |-> NoExc,
              name |-> Lower(Strip(Decode(field_line_parts[1]))),
              value |-> Lower(Strip(Decode(field_line_parts[2])))]

(***************************************************************************)
(* read_headers, one turn of its loop: what a field line parses to.        *)
(***************************************************************************)
ParseFieldLine(field_line) ==
    LET field_line_parts == SplitOnce(field_line, <<":">>)
        bad == [exc |-> HTTPError(HTTP_400_BAD_REQUEST), name |-> <<>>, value |-> <<>>]
    IN  IF Len(field_line_parts) # 2 THEN bad
        ELSE IF ~CanDecode(field_line_parts[1]) THEN bad
        ELSE IF Lower(Strip(Decode(field_line_parts[1]))) = <<>> THEN bad
        ELSE IF ~CanDecode(field_line_parts[2]) THEN bad
        ELSE IF Lower(Strip(Decode(field_line_parts[2]))) = <<>> THEN bad
        ELSE [exc |-> NoExc,
              name |-> Lower(Strip(Decode(field_line_parts[1]))),
              value |-> Lower(Strip(Decode(field_line_parts[2])))]

\* a faulty variant: a second host header raised as EntityTooLarge
DuplicateHostAs413 == HTTP_413_ENTITY_TOO_LARGE

\* the status raised when a second host header is met
DuplicateHostStatus == HTTP_400_BAD_REQUEST

\* a faulty variant: a missing host header raised as BadRequest
MissingHostAs400 == HTTP_400_BAD_REQUEST

\* the status raised when the block ends and no host header was met
MissingHostStatus == HTTP_413_ENTITY_TOO_LARGE

\* a faulty variant: storing a header drops the headers stored before it
SetHeaderOnly(headers, name, value) == [n \in {name} |-> value]

\* a faulty variant: the first value stored for a name is kept
SetHeaderKeepFirst(headers, name, value) ==
    [n \in (DOMAIN headers) \cup {name} |-> IF n \in DOMAIN headers THEN headers[n] ELSE value]

\* headers: dict[str, str] = {}
EmptyHeaders == [n \in {} |-> <<>>]

\* headers[header_name] = header_value
SetHeader(headers, name, value) ==
    [n \in (DOMAIN headers) \cup {name} |-> IF n = name THEN value ELSE headers[n]]

\* headers.get(name, default)
GetHeader(headers, name, default) ==
    IF name \in DOMAIN headers THEN headers[name] ELSE default

\* the test of line 183: body_length.isdigit is the bound method, never called,
\* and a bound method is true
IsDigitTest(body_length) == TRUE

(***************************************************************************)
(* read_headers as a function of the header lines before the blank line:   *)
(* the loop of lines 89-127 over the lines in order, then the test of      *)
(* lines 129-133.                                                          *)
(***************************************************************************)
RECURSIVE ReadHeadersFrom(_, _, _)
ReadHeadersFrom(field_lines, has_host, hdrs) ==
    IF field_lines = <<>>
    THEN IF ~has_host
         THEN [exc |-> HTTPError(MissingHostStatus), headers |-> EmptyHeaders]
         ELSE [exc |-> NoExc, headers |-> hdrs]
    ELSE LET f == ParseFieldLine(Head(field_lines))
         IN  IF f.exc # NoExc
             THEN [exc |-> f.exc, headers |-> EmptyHeaders]
             ELSE IF f.name = HostName /\ has_host
             THEN [exc |-> HTTPError(DuplicateHostStatus), headers |-> EmptyHeaders]
             ELSE ReadHeadersFrom(Tail(field_lines),
                                  has_host \/ f.name = HostName,
                                  SetHeader(hdrs, f.name, f.value))

\* what read_headers returns or raises for a block whose blank line arrives
HeadersOfBlock(block) == ReadHeadersFrom(block, FALSE, EmptyHeaders)

(***************************************************************************)
(* json.dumps of the echo payload.                                         *)
(***************************************************************************)
JsonEscapeChar(c) ==
    CASE c = "\"" -> <<"\\", "\"">>
      [] c = "\\" -> <<"\\", "\\">>
      [] c = LF -> <<"\\", "n">>
      [] c = CR -> <<"\\", "r">>
      [] c = "\t" -> <<"\\", "t">>
      [] OTHER -> <<c>>

JsonString(s) ==
    <<"\"">> \o Concat([i \in 1..Len(s) |-> JsonEscapeChar(s[i])]) \o <<"\"">>

JsonDumps(response_body) ==
       <<"{", "\"", "m", "e", "t", "h", "o", "d", "\"", ":", " ">>
    \o JsonString(response_body.method)
    \o <<",", " ", "\"", "v", "e", "r", "s", "i", "o", "n", "\"", ":", " ">>
    \o response_body.version
    \o <<",", " ", "\"", "p", "a", "t", "h", "\"", ":", " ">>
    \o JsonString(response_body.path)
    \o <<",", " ", "\"", "b", "o", "d", "y", "\"", ":", " ">>
    \o JsonString(response_body.body)
    \o <<"}">>

(***************************************************************************)
(* send_response: the bytes it hands to writer.write.  body = <<>> is both *)
(* None and b"", which the code treats alike.                              *)
(***************************************************************************)
\* a faulty variant: send_response without its Connection: close line
ResponseBytesNoClose(http_status_code, body) ==
       <<"H", "T", "T", "P", "/", "1", ".", "1", " ">> \o StatusStr(http_status_code) \o CRLF
    \o <<"C", "o", "n", "t", "e", "n", "t", "-", "T", "y", "p", "e", ":", " ",
         "t", "e", "x", "t", "/", "p", "l", "a", "i", "n">> \o CRLF
    \o <<"C", "o", "n", "t", "e", "n", "t", "-", "L", "e", "n", "g", "t", "h", ":", " ">>
    \o Str(Len(body)) \o CRLF
    \o CRLF
    \o body

ResponseBytes(http_status_code, body) ==
       <<"H", "T", "T", "P", "/", "1", ".", "1", " ">> \o StatusStr(http_status_code) \o CRLF
    \o <<"C", "o", "n", "t", "e", "n", "t", "-", "T", "y", "p", "e", ":", " ",
         "t", "e", "x", "t", "/", "p", "l", "a", "i", "n">> \o CRLF
    \o <<"C", "o", "n", "t", "e", "n", "t", "-", "L", "e", "n", "g", "t", "h", ":", " ">>
    \o Str(Len(body)) \o CRLF
    \o <<"C", "o", "n", "n", "e", "c", "t", "i", "o", "n", ":", " ",
         "c", "l", "o", "s", "e">> \o CRLF
    \o CRLF
    \o body

\* lines 201-206 and 210 of handler: what it passes to send_response as the body
SuccessBody(response_body_json_bytes) ==
       <<"H", "T", "T", "P", "/", "1", ".", "1", " ">> \o StatusStr(HTTP_200_OK) \o CRLF
    \o <<"c", "o", "n", "t", "e", "n", "t", "-", "t", "y", "p", "e", ":", " ",
         "t", "e", "x", "t", "/", "p", "l", "a", "i", "n">> \o CRLF
    \o <<"c", "o", "n", "t", "e", "n", "t", "-", "l", "e", "n", "g", "t", "h", ":", " ">>
    \o Str(Len(response_body_json_bytes)) \o CRLF
    \o CRLF
    \o response_body_json_bytes

(***************************************************************************)
(* What a peer sends: a request line of space-separated tokens, a block of *)
(* header lines, the blank line, and body bytes.                           *)
(***************************************************************************)
RECURSIVE Join(_, _)
Join(tokens, sep) ==
    IF tokens = <<>> THEN <<>>
    ELSE IF Len(tokens) = 1 THEN tokens[1]
    ELSE tokens[1] \o sep \o Join(Tail(tokens), sep)

RequestLineOf(tokens) == Join(tokens, <<" ">>) \o CRLF

FieldLine(name, value) == name \o <<":">> \o value \o CRLF

MethodTokens == HTTPMethod \cup {<<"g", "e", "t">>, <<"H", "E", "A", "D">>, <<xFF>>}
PathTokens == {<<"/", "x">>, <<>>, <<"/", "\"">>, <<"/", xFF>>}
VersionTokens == {<<"H", "T", "T", "P", "/", "1", ".", "1">>,
                  <<"H", "T", "T", "P", "/", "1", ".", "0">>}

\* a request line the code accepts, used with every header block
PlainTokens == << <<"G", "E", "T">>, <<"/", "x">>, <<"H", "T", "T", "P", "/", "1", ".", "1">> >>

RequestTokens ==
         {<<m, p, v>> : m \in MethodTokens, p \in PathTokens, v \in VersionTokens}
    \cup {<<PlainTokens[1], PlainTokens[2]>>,
          <<PlainTokens[1], PlainTokens[2], <<"y">>, PlainTokens[3]>>}

HostLine == FieldLine(<<"H", "o", "s", "t">>, <<" ", "A">>)

ContentLengthRaw ==
    <<"C", "o", "n", "t", "e", "n", "t", "-", "L", "e", "n", "g", "t", "h">>

\* Content-Length lines whose value is a decimal number, by that number
NumericLengthLine(n) ==
    IF n = 0 THEN FieldLine(ContentLengthName, <<"0">>)
    ELSE FieldLine(ContentLengthRaw, <<" ">> \o Str(n))

NumericLengths == {0, 2}

\* Content-Length lines whose value is no string of decimal digits
BadLengthLines == {FieldLine(ContentLengthRaw, <<" ", "x">>),
                   FieldLine(ContentLengthRaw, <<" ", "-", "1">>)}

OtherLine == FieldLine(<<"X">>, <<" ", "y">>)

\* the header lines blocks of every shape are made of
BlockLines == {HostLine, OtherLine} \cup {NumericLengthLine(n) : n \in NumericLengths}

\* lines read_headers accepts
WellFormedLines == BlockLines \cup BadLengthLines

NoColonLine == <<"X">> \o CRLF
EmptyNameLine == FieldLine(<<" ">>, <<" ", "y">>)
EmptyValueLine == FieldLine(<<"X">>, <<" ">>)
BadNameLine == FieldLine(<<xFF>>, <<" ", "y">>)
BadValueLine == FieldLine(<<"X">>, <<" ", xFF>>)

\* lines read_headers rejects
MalformedLines == {NoColonLine, EmptyNameLine, EmptyValueLine, BadNameLine, BadValueLine}

WellFormedBlocks(n) == UNION {[1..k -> BlockLines] : k \in 0..n}

\* a malformed line ends the parse, so a block holds one only as its last line
HeaderBlocks ==
    WellFormedBlocks(MaxHeaders)
        \cup {Append(b, m) : b \in WellFormedBlocks(MaxHeaders - 1), m \in MalformedLines}

PlainBody(n) == [i \in 1..n |-> LowerCase[((i - 1) % Len(LowerCase)) + 1]]

Bodies == {PlainBody(n) : n \in 0..MaxBody}

\* a body whose text json.dumps must escape, and one that is no UTF-8
SpecialBodies == {<<"\"", "\\">>, <<"a", xFF>>}

\* blocks with a Content-Length line whose value is no number
BadLengthBlocks ==
    UNION {{<<HostLine, b>>, <<b, HostLine>>, <<HostLine, NumericLengthLine(2), b>>,
            <<HostLine, b, NumericLengthLine(2)>>} : b \in BadLengthLines}

\* a body that is itself a complete request: what a peer that pipelines sends
PipelinedBody == RequestLineOf(PlainTokens) \o HostLine \o CRLF

Requests ==
         {[tokens |-> t, block |-> b, body |-> y] :
              t \in RequestTokens, b \in {<<HostLine>>}, y \in {PlainBody(0), PlainBody(1)}}
    \cup {[tokens |-> PlainTokens, block |-> b, body |-> y] :
              b \in HeaderBlocks, y \in Bodies}
    \cup {[tokens |-> PlainTokens, block |-> b, body |-> y] :
              b \in {<<HostLine, NumericLengthLine(2)>>}, y \in SpecialBodies}
    \cup {[tokens |-> PlainTokens, block |-> b, body |-> y] :
              b \in BadLengthBlocks, y \in {PlainBody(0), PlainBody(2)}}
    \cup {[tokens |-> PlainTokens, block |-> b, body |-> PipelinedBody] :
              b \in {<<HostLine>>, <<HostLine, NumericLengthLine(2)>>, <<OtherLine>>}}

\* the bytes of a request on the wire
Wire(r) == RequestLineOf(r.tokens) \o Concat(r.block) \o CRLF \o r.body

(***************************************************************************)
(* The state of one connection.                                            *)
(***************************************************************************)
VARIABLES
    request,          \* what the peer set out to send (never changes)
    peer,             \* the bytes the peer has not sent yet
    buffer,           \* StreamReader: bytes received and not read yet
    eof,              \* StreamReader: the peer has ended the stream
    pc,               \* where handler is
    request_line,     \* handler's local, or None
    has_host_header,  \* read_headers' local
    headers,          \* read_headers' local, then handler's
    body_length,      \* int(body_length), the argument of read_body
    body,             \* handler's local; <<>> is None
    exc,              \* the exception in flight
    in_except,        \* handler is inside its except HTTPError clause
    raised,           \* every exception raised so far, in order, with the place
    reads,            \* every bytes object a read of the stream returned, in order
    written,          \* every bytes object handed to writer.write, in order
    closed,           \* writer.close() was called
    running,          \* the connection whose handler the variables above describe
    waiting           \* the handlers of the other connections, by connection

vars == <<request, peer, buffer, eof, pc, request_line, has_host_header, headers,
          body_length, body, exc, in_except, raised, reads, written, closed>>

None == [method |-> <<>>, version |-> <<>>, path |-> <<>>]

\* no other connection is open
NoTasks == [c \in {} |-> <<>>]

Init ==
    /\ request \in Requests
    /\ peer = Wire(request)
    /\ buffer = <<>>
    /\ eof = FALSE
    /\ pc = "read_request_line"
    /\ request_line = None
    /\ has_host_header = FALSE
    /\ headers = EmptyHeaders
    /\ body_length = 0
    /\ body = <<>>
    /\ exc = NoExc
    /\ in_except = FALSE
    /\ raised = <<>>
    /\ reads = <<>>
    /\ written = <<>>
    /\ closed = FALSE
    /\ running = 1
    /\ waiting = NoTasks

(***************************************************************************)
(* The peer.  asyncio runs handler until it awaits something that is not   *)
(* ready, and only then does the event loop feed the StreamReader: bytes   *)
(* and the end of the stream arrive while handler is suspended in a read.  *)
(***************************************************************************)
\* reader.readuntil(b"\r\n") can return: the buffer holds a whole line
HasLine == Find(buffer, CRLF) # 0

\* the line reader.readuntil(b"\r\n") returns, its CRLF included
NextLine == Take(buffer, Find(buffer, CRLF) + 1)

\* handler is suspended in readuntil or readexactly
Suspended ==
    \/ pc \in {"read_request_line", "read_headers"} /\ ~HasLine
    \/ pc = "read_body" /\ body_length > 0 /\ Len(buffer) < body_length

\* the next bytes of the request reach the StreamReader
PeerSend ==
    /\ Suspended
    /\ ~eof
    /\ peer # <<>>
    /\ buffer' = buffer \o Take(peer, Min(ChunkLen, Len(peer)))
    /\ peer' = Drop(peer, Min(ChunkLen, Len(peer)))
    /\ UNCHANGED <<request, eof, pc, request_line, has_host_header, headers,
                   body_length, body, exc, in_except, raised, reads, written, closed>>
    /\ UNCHANGED <<waiting, running>>

\* the peer ends the stream; what it had not sent is never sent
PeerClose ==
    /\ Suspended
    /\ ~eof
    /\ eof' = TRUE
    /\ UNCHANGED <<request, peer, buffer, pc, request_line, has_host_header, headers,
                   body_length, body, exc, in_except, raised, reads, written, closed>>
    /\ UNCHANGED <<waiting, running>>

(***************************************************************************)
(* handler and the functions it awaits.                                    *)
(***************************************************************************)
\* a faulty variant: after an exception handler goes on to build the response
RaiseThenRespond(e) ==
    /\ exc' = e
    /\ raised' = Append(raised, [type |-> e.type, status |-> e.status, at |-> pc])
    /\ pc' = "respond"

\* an exception e leaves the try block of handler
Raise(e) ==
    /\ exc' = e
    /\ raised' = Append(raised, [type |-> e.type, status |-> e.status, at |-> pc])
    /\ pc' = "except"

\* the stream ended before what a read waits for: asyncio empties the buffer
\* and raises IncompleteReadError
IncompleteRead ==
    /\ eof
    /\ buffer' = <<>>
    /\ Raise(OtherExc("IncompleteReadError"))
    /\ UNCHANGED reads

ReadRequestLine ==
    /\ pc = "read_request_line"
    /\ \/ /\ HasLine
          /\ buffer' = Drop(buffer, Len(NextLine))
          /\ reads' = Append(reads, NextLine)
          /\ LET r == ParseRequestLine(NextLine)
             IN  IF r.exc = NoExc
                 THEN /\ request_line' = [method |-> r.method,
                                          version |-> VersionText,
                                          path |-> r.path]
                      /\ pc' = "read_headers"
                      /\ UNCHANGED <<exc, raised>>
                 ELSE /\ Raise(r.exc)
                      /\ UNCHANGED request_line
       \/ /\ ~HasLine
          /\ IncompleteRead
          /\ UNCHANGED request_line
    /\ UNCHANGED <<request, peer, eof, has_host_header, headers, body_length, body,
                   in_except, written, closed>>
    /\ UNCHANGED <<waiting, running>>

\* a faulty variant: the Host test is made on every line, not after the blank line
ReadHeadersHostEveryLine ==
    /\ pc = "read_headers"
    /\ \/ /\ HasLine
          /\ buffer' = Drop(buffer, Len(NextLine))
          /\ reads' = Append(reads, NextLine)
          /\ IF NextLine = CRLF
             THEN /\ IF ~has_host_header
                     THEN Raise(HTTPError(MissingHostStatus))
                     ELSE /\ pc' = "content_length"
                          /\ UNCHANGED <<exc, raised>>
                  /\ UNCHANGED <<has_host_header, headers>>
             ELSE LET f == ParseFieldLine(NextLine)
                  IN  IF f.exc # NoExc
                      THEN /\ Raise(f.exc)
                           /\ UNCHANGED <<has_host_header, headers>>
                      ELSE IF f.name = HostName /\ has_host_header
                      THEN /\ Raise(HTTPError(DuplicateHostStatus))
                           /\ UNCHANGED <<has_host_header, headers>>
                      ELSE IF f.name # HostName /\ ~has_host_header
                      THEN /\ Raise(HTTPError(MissingHostStatus))
                           /\ UNCHANGED <<has_host_header, headers>>
                      ELSE /\ has_host_header' = (has_host_header \/ f.name = HostName)
                           /\ headers' = SetHeader(headers, f.name, f.value)
                           /\ UNCHANGED <<pc, exc, raised>>
       \/ /\ ~HasLine
          /\ IncompleteRead
          /\ UNCHANGED <<has_host_header, headers>>
    /\ UNCHANGED <<request, peer, eof, request_line, body_length, body,
                   in_except, written, closed>>
    /\ UNCHANGED <<waiting, running>>

\* one readuntil of read_headers and what the loop does with the line
ReadHeaders ==
    /\ pc = "read_headers"
    /\ \/ /\ HasLine
          /\ buffer' = Drop(buffer, Len(NextLine))
          /\ reads' = Append(reads, NextLine)
          /\ IF NextLine = CRLF
             THEN /\ IF ~has_host_header
                     THEN Raise(HTTPError(MissingHostStatus))
                     ELSE /\ pc' = "content_length"
                          /\ UNCHANGED <<exc, raised>>
                  /\ UNCHANGED <<has_host_header, headers>>
             ELSE LET f == ParseFieldLine(NextLine)
                  IN  IF f.exc # NoExc
                      THEN /\ Raise(f.exc)
                           /\ UNCHANGED <<has_host_header, headers>>
                      ELSE IF f.name = HostName /\ has_host_header
                      THEN /\ Raise(HTTPError(DuplicateHostStatus))
                           /\ UNCHANGED <<has_host_header, headers>>
                      ELSE /\ has_host_header' = (has_host_header \/ f.name = HostName)
                           /\ headers' = SetHeader(headers, f.name, f.value)
                           /\ UNCHANGED <<pc, exc, raised>>
       \/ /\ ~HasLine
          /\ IncompleteRead
          /\ UNCHANGED <<has_host_header, headers>>
    /\ UNCHANGED <<request, peer, eof, request_line, body_length, body,
                   in_except, written, closed>>
    /\ UNCHANGED <<waiting, running>>

\* lines 181-189: the Content-Length test and int(body_length)
ContentLength ==
    /\ pc = "content_length"
    /\ LET length == GetHeader(headers, ContentLengthName, <<"0">>)
       IN  IF ~IsDigitTest(length)
           THEN /\ Raise(HTTPError(HTTP_400_BAD_REQUEST))
                /\ UNCHANGED body_length
           ELSE IF ~ParseInt(length).ok
           THEN /\ Raise(OtherExc("ValueError"))
                /\ UNCHANGED body_length
           ELSE /\ body_length' = ParseInt(length).val
                /\ pc' = "read_body"
                /\ UNCHANGED <<exc, raised>>
    /\ UNCHANGED <<request, peer, buffer, eof, request_line, has_host_header, headers,
                   body, in_except, reads, written, closed>>
    /\ UNCHANGED <<waiting, running>>

\* a faulty variant: the read takes every byte the buffer holds
ReadAvailable(buf, n) == [data |-> buf, rest |-> <<>>]

\* reader.readexactly(n) on a buffer that holds at least n bytes
ReadExactly(buf, n) == [data |-> Take(buf, n), rest |-> Drop(buf, n)]

ReadBody ==
    /\ pc = "read_body"
    /\ \/ /\ body_length <= 0
          /\ body' = <<>>
          /\ pc' = "respond"
          /\ UNCHANGED <<buffer, exc, raised, reads>>
       \/ /\ body_length > 0
          /\ Len(buffer) >= body_length
          /\ body' = ReadExactly(buffer, body_length).data
          /\ buffer' = ReadExactly(buffer, body_length).rest
          /\ reads' = Append(reads, ReadExactly(buffer, body_length).data)
          /\ pc' = "respond"
          /\ UNCHANGED <<exc, raised>>
       \/ /\ body_length > 0
          /\ Len(buffer) < body_length
          /\ IncompleteRead
          /\ UNCHANGED body
    /\ UNCHANGED <<request, peer, eof, request_line, has_host_header, headers,
                   body_length, in_except, written, closed>>
    /\ UNCHANGED <<waiting, running>>

\* lines 191-199: the echo payload as JSON bytes
EchoJson ==
    Encode(JsonDumps([method |-> request_line.method,
                      version |-> request_line.version,
                      path |-> request_line.path,
                      body |-> IF body # <<>> THEN Decode(body) ELSE NoneText]))

\* lines 191-211 up to writer.write in send_response
Respond ==
    /\ pc = "respond"
    /\ IF ~CanDecode(body)
       THEN /\ Raise(OtherExc("UnicodeDecodeError"))
            /\ UNCHANGED written
       ELSE /\ written' = Append(written, ResponseBytes(HTTP_200_OK, SuccessBody(EchoJson)))
            /\ pc' = "drain"
            /\ UNCHANGED <<exc, raised>>
    /\ UNCHANGED <<request, peer, buffer, eof, request_line, has_host_header, headers,
                   body_length, body, in_except, reads, closed>>
    /\ UNCHANGED <<waiting, running>>

\* a faulty variant: a failed drain is handed to the except clause as an HTTPError
DrainFailureReported ==
    /\ pc = "drain"
    /\ \/ /\ exc' = NoExc
          /\ pc' = "finally"
          /\ UNCHANGED raised
       \/ /\ exc' = HTTPError(HTTP_500_INTERNAL_SERVER_ERROR)
          /\ pc' = "except"
          /\ raised' = Append(raised, [type |-> "HTTPError",
                                       status |-> HTTP_500_INTERNAL_SERVER_ERROR,
                                       at |-> pc])
    /\ in_except' = FALSE
    /\ UNCHANGED <<request, peer, buffer, eof, request_line, has_host_header, headers,
                   body_length, body, reads, written, closed>>
    /\ UNCHANGED <<waiting, running>>

\* await writer.drain() in send_response: it returns, or the connection was
\* lost and it raises; either way handler goes on to its finally clause
Drain ==
    /\ pc = "drain"
    /\ \/ /\ exc' = NoExc
          /\ UNCHANGED raised
       \/ /\ exc' = OtherExc("ConnectionResetError")
          /\ raised' = Append(raised, [type |-> "ConnectionResetError", status |-> 0,
                                       at |-> pc])
    /\ in_except' = FALSE
    /\ pc' = "finally"
    /\ UNCHANGED <<request, peer, buffer, eof, request_line, has_host_header, headers,
                   body_length, body, reads, written, closed>>
    /\ UNCHANGED <<waiting, running>>

\* the except clauses of handler, lines 212-216
Except ==
    /\ pc = "except"
    /\ \/ /\ exc.type = "IncompleteReadError"
          /\ exc' = HTTPError(HTTP_413_ENTITY_TOO_LARGE)
          /\ raised' = Append(raised, [type |-> "HTTPError",
                                       status |-> HTTP_413_ENTITY_TOO_LARGE,
                                       at |-> pc])
          /\ pc' = "finally"
          /\ UNCHANGED <<in_except, written>>
       \/ /\ exc.type = "HTTPError"
          /\ written' = Append(written, ResponseBytes(exc.status, <<>>))
          /\ in_except' = TRUE
          /\ pc' = "drain"
          /\ UNCHANGED <<exc, raised>>
       \/ /\ exc.type \notin {"IncompleteReadError", "HTTPError"}
          /\ pc' = "finally"
          /\ UNCHANGED <<exc, raised, in_except, written>>
    /\ UNCHANGED <<request, peer, buffer, eof, request_line, has_host_header, headers,
                   body_length, body, reads, closed>>
    /\ UNCHANGED <<waiting, running>>

\* a faulty variant: the connection is closed only when no exception is in flight
FinallyUnlessRaised ==
    /\ pc = "finally"
    /\ closed' = (exc = NoExc)
    /\ pc' = "done"
    /\ UNCHANGED <<request, peer, buffer, eof, request_line, has_host_header, headers,
                   body_length, body, exc, in_except, raised, reads, written>>
    /\ UNCHANGED <<waiting, running>>

\* a faulty variant: after a response, bytes left in the buffer start a new request
FinallyKeepAlive ==
    /\ pc = "finally"
    /\ closed' = (buffer = <<>>)
    /\ pc' = IF buffer = <<>> THEN "done" ELSE "read_request_line"
    /\ UNCHANGED <<request, peer, buffer, eof, request_line, has_host_header, headers,
                   body_length, body, exc, in_except, raised, reads, written>>
    /\ UNCHANGED <<waiting, running>>

\* the finally clause of handler, lines 217-219
Finally ==
    /\ pc = "finally"
    /\ closed' = TRUE
    /\ pc' = "done"
    /\ UNCHANGED <<request, peer, buffer, eof, request_line, has_host_header, headers,
                   body_length, body, exc, in_except, raised, reads, written>>
    /\ UNCHANGED <<waiting, running>>

Next ==
    \/ PeerSend
    \/ PeerClose
    \/ ReadRequestLine
    \/ ReadHeaders
    \/ ContentLength
    \/ ReadBody
    \/ Respond
    \/ Drain
    \/ Except
    \/ Finally

Spec == Init /\ [][Next]_<<vars, running, waiting>>

(***************************************************************************)
(* Several connections.  asyncio.start_server starts one handler task per  *)
(* accepted connection and the event loop runs one task at a time: a task  *)
(* keeps running until it awaits something that is not ready.  The         *)
(* variables above describe the task that runs (or ran last); waiting      *)
(* holds the state of the tasks of the other connections.  handler keeps   *)
(* all its state in locals, so a task's state is those sixteen values.     *)
(***************************************************************************)
\* the state of the running handler task, as one record
Task ==
    [request |-> request, peer |-> peer, buffer |-> buffer, eof |-> eof, pc |-> pc,
     request_line |-> request_line, has_host_header |-> has_host_header,
     headers |-> headers, body_length |-> body_length, body |-> body, exc |-> exc,
     in_except |-> in_except, raised |-> raised, reads |-> reads, written |-> written,
     closed |-> closed]

\* the task of a connection just accepted, whose peer will send request r
InitialTask(r) ==
    [request |-> r, peer |-> Wire(r), buffer |-> <<>>, eof |-> FALSE,
     pc |-> "read_request_line", request_line |-> None, has_host_header |-> FALSE,
     headers |-> EmptyHeaders, body_length |-> 0, body |-> <<>>, exc |-> NoExc,
     in_except |-> FALSE, raised |-> <<>>, reads |-> <<>>, written |-> <<>>,
     closed |-> FALSE]

\* what the peers of concurrent connections send: a request that is answered
\* 200 with its body, one that stalls in its body, one that declares no body,
\* one without Host, one that fails in int()
ConcRequestList ==
    <<[tokens |-> PlainTokens, block |-> <<HostLine, NumericLengthLine(2)>>,
       body |-> PlainBody(2)],
      [tokens |-> PlainTokens, block |-> <<HostLine, NumericLengthLine(2)>>,
       body |-> PlainBody(1)],
      [tokens |-> PlainTokens, block |-> <<HostLine>>, body |-> PlainBody(2)],
      [tokens |-> PlainTokens, block |-> <<OtherLine>>, body |-> <<>>],
      [tokens |-> PlainTokens, block |-> <<HostLine, FieldLine(ContentLengthRaw, <<" ", "x">>)>>,
       body |-> <<>>]>>

ConcRequests == {ConcRequestList[i] : i \in 1..Len(ConcRequestList)}

\* the place of a request in the list
RequestIndex(r) == CHOOSE i \in 1..Len(ConcRequestList) : ConcRequestList[i] = r

\* the running task awaits: the event loop may run another task
Yields == Suspended \/ pc \in {"drain", "done"}

\* a faulty variant: the header map is one object shared by every task
SwitchSharingHeaders ==
    /\ Yields
    /\ \E c \in DOMAIN waiting :
          /\ request' = waiting[c].request
          /\ peer' = waiting[c].peer
          /\ buffer' = waiting[c].buffer
          /\ eof' = waiting[c].eof
          /\ pc' = waiting[c].pc
          /\ request_line' = waiting[c].request_line
          /\ has_host_header' = waiting[c].has_host_header
          /\ headers' = headers
          /\ body_length' = waiting[c].body_length
          /\ body' = waiting[c].body
          /\ exc' = waiting[c].exc
          /\ in_except' = waiting[c].in_except
          /\ raised' = waiting[c].raised
          /\ reads' = waiting[c].reads
          /\ written' = waiting[c].written
          /\ closed' = waiting[c].closed
          /\ running' = c
          /\ waiting' = [d \in (DOMAIN waiting \ {c}) \cup {running} |->
                            IF d = running THEN Task ELSE waiting[d]]

\* the event loop goes on with the task of connection c
Switch ==
    /\ Yields
    /\ \E c \in DOMAIN waiting :
          /\ request' = waiting[c].request
          /\ peer' = waiting[c].peer
          /\ buffer' = waiting[c].buffer
          /\ eof' = waiting[c].eof
          /\ pc' = waiting[c].pc
          /\ request_line' = waiting[c].request_line
          /\ has_host_header' = waiting[c].has_host_header
          /\ headers' = waiting[c].headers
          /\ body_length' = waiting[c].body_length
          /\ body' = waiting[c].body
          /\ exc' = waiting[c].exc
          /\ in_except' = waiting[c].in_except
          /\ raised' = waiting[c].raised
          /\ reads' = waiting[c].reads
          /\ written' = waiting[c].written
          /\ closed' = waiting[c].closed
          /\ running' = c
          /\ waiting' = [d \in (DOMAIN waiting \ {c}) \cup {running} |->
                            IF d = running THEN Task ELSE waiting[d]]

\* MaxConnections connections were accepted; nothing has been received yet
ConcInit ==
    /\ request \in ConcRequests
    /\ peer = Wire(request)
    /\ buffer = <<>>
    /\ eof = FALSE
    /\ pc = "read_request_line"
    /\ request_line = None
    /\ has_host_header = FALSE
    /\ headers = EmptyHeaders
    /\ body_length = 0
    /\ body = <<>>
    /\ exc = NoExc
    /\ in_except = FALSE
    /\ raised = <<>>
    /\ reads = <<>>
    /\ written = <<>>
    /\ closed = FALSE
    /\ running = 1
    /\ waiting \in [2..MaxConnections -> {InitialTask(r) : r \in ConcRequests}]
    \* connections differ only in what their peers send: it is enough to take
    \* the requests in the order of the list
    /\ RequestIndex(request) <= RequestIndex(waiting[2].request)
    /\ \A c \in 2..(MaxConnections - 1) :
           RequestIndex(waiting[c].request) <= RequestIndex(waiting[c + 1].request)

ConcNext ==
    \/ PeerSend
    \/ PeerClose
    \/ ReadRequestLine
    \/ ReadHeaders
    \/ ContentLength
    \/ ReadBody
    \/ Respond
    \/ Drain
    \/ Except
    \/ Finally
    \/ Switch

ConcSpec == ConcInit /\ [][ConcNext]_<<vars, running, waiting>>

(***************************************************************************)
(* handler as a function of the request its peer sends, for a connection   *)
(* handled alone whose stream stays open: the responses it writes.         *)
(***************************************************************************)
HandleAlone(r) ==
    LET line == ParseRequestLine(RequestLineOf(r.tokens))
        block == HeadersOfBlock(r.block)
        length == GetHeader(block.headers, ContentLengthName, <<"0">>)
        data == IF ParseInt(length).val > 0 THEN Take(r.body, ParseInt(length).val)
                ELSE <<>>
    IN  IF line.exc.type = "HTTPError" THEN <<ResponseBytes(line.exc.status, <<>>)>>
        ELSE IF line.exc # NoExc THEN <<>>
        ELSE IF block.exc.type = "HTTPError" THEN <<ResponseBytes(block.exc.status, <<>>)>>
        ELSE IF ~IsDigitTest(length) THEN <<ResponseBytes(HTTP_400_BAD_REQUEST, <<>>)>>
        ELSE IF ~ParseInt(length).ok THEN <<>>
        ELSE IF ~CanDecode(data) THEN <<>>
        ELSE <<ResponseBytes(HTTP_200_OK,
                   SuccessBody(Encode(JsonDumps(
                       [method |-> line.method,
                        version |-> VersionText,
                        path |-> line.path,
                        body |-> IF data # <<>> THEN Decode(data) ELSE NoneText]))))>>

(***************************************************************************)
(* Reading a response back off the wire, and reading the history of a      *)
(* connection: only the properties below use these.                        *)
(***************************************************************************)
BlankLine == CRLF \o CRLF

\* the lines of a response before its first blank line
RespLines(resp) == SplitAll(Take(resp, Find(resp, BlankLine) - 1), CRLF)

\* the entity of a response: what follows its first blank line
RespEntity(resp) == Drop(resp, Find(resp, BlankLine) + 3)

\* the status line of status code, as section 6 of the specification writes it
StatusLineOf(code) ==
    <<"H", "T", "T", "P", "/", "1", ".", "1", " ">> \o Str(code) \o <<" ">> \o StatusMessage(code)

\* the status code on the status line of a response
RespStatus(resp) == DigitsValue(SubSeq(resp, 10, 12))

\* the values of the header lines of a response that carry the (lower-case) name
RespHeader(resp, name) ==
    LET lines == RespLines(resp)
    IN  {Drop(lines[i], Len(name) + 2) :
            i \in {j \in 2..Len(lines) :
                      /\ Len(lines[j]) >= Len(name) + 2
                      /\ Lower(Take(lines[j], Len(name))) = name
                      /\ SubSeq(lines[j], Len(name) + 1, Len(name) + 2) = <<":", " ">>}}

\* the error response of status code, as section 6 of the specification writes
\* it: the status line, Content-Type: text/plain, Content-Length: 0,
\* Connection: close, the blank line, and no body
ErrorResponseOf(code) ==
       StatusLineOf(code) \o CRLF
    \o <<"C", "o", "n", "t", "e", "n", "t", "-", "T", "y", "p", "e", ":", " ",
         "t", "e", "x", "t", "/", "p", "l", "a", "i", "n">> \o CRLF
    \o <<"C", "o", "n", "t", "e", "n", "t", "-", "L", "e", "n", "g", "t", "h", ":", " ", "0">>
    \o CRLF
    \o <<"C", "o", "n", "n", "e", "c", "t", "i", "o", "n", ":", " ",
         "c", "l", "o", "s", "e">> \o CRLF
    \o CRLF

IsErrorResponse(resp, code) == resp = ErrorResponseOf(code)

\* a request line of three tokens the code accepts
ValidTokens(t) ==
    /\ Len(t) = 3
    /\ t[1] \in HTTPMethod
    /\ t[3] = <<"H", "T", "T", "P", "/", "1", ".", "1">>
    /\ CanDecode(t[2])

\* the index in reads of the blank line that ends the header block, 0 if not read
TerminatorAt ==
    LET hits == {i \in 2..Len(reads) : reads[i] = CRLF}
    IN  IF hits = {} THEN 0 ELSE CHOOSE i \in hits : \A j \in hits : i <= j

\* the header lines read so far
FieldLinesRead ==
    IF TerminatorAt = 0 THEN Drop(reads, 1) ELSE SubSeq(reads, 2, TerminatorAt - 1)

\* the first HTTPError raised on the connection
FirstHTTPError ==
    raised[CHOOSE i \in 1..Len(raised) :
              /\ raised[i].type = "HTTPError"
              /\ \A j \in 1..(i - 1) : raised[j].type # "HTTPError"]

(***************************************************************************)
(* C1.  Whenever a stage of handler fails with a protocol error, handler   *)
(* writes exactly one error response, with the status the error carries    *)
(* and no body, before it closes the connection.  Stated for a handler     *)
(* that has ended: an HTTPError was raised, so exactly one response was    *)
(* written and it is the error response of the first HTTPError's status.   *)
(* The code breaks this when a read meets the end of the stream: the       *)
(* HTTPError(413) of line 213 is raised inside an except clause, which the *)
(* except HTTPError clause beside it does not catch.                       *)
(***************************************************************************)
C1_ProtocolErrorAnswered ==
    (pc = "done" /\ \E i \in 1..Len(raised) : raised[i].type = "HTTPError")
        => /\ Len(written) = 1
           /\ IsErrorResponse(written[1], FirstHTTPError.status)
           /\ closed

(***************************************************************************)
(* C2.  A stream that ends inside the body of a request with a valid       *)
(* request line and header block and Content-Length N > 0 is classified    *)
(* EntityTooLarge and a 413 response is written before the connection is   *)
(* closed.  The code raises the HTTPError(413) but writes nothing.         *)
(***************************************************************************)
C2_ShortBodyAnswered413 ==
    (/\ pc = "done"
     /\ ValidTokens(request.tokens)
     /\ body_length > 0
     /\ \E i \in 1..Len(raised) :
            raised[i].type = "IncompleteReadError" /\ raised[i].at = "read_body")
        => /\ \E i \in 1..Len(raised) :
                  /\ raised[i].type = "HTTPError"
                  /\ raised[i].status = HTTP_413_ENTITY_TOO_LARGE
           /\ Len(written) = 1
           /\ IsErrorResponse(written[1], HTTP_413_ENTITY_TOO_LARGE)

(***************************************************************************)
(* C3.  Every way handler ends (success, a protocol error, an unclassified *)
(* exception, a failure while writing a response), it ends with the        *)
(* connection closed: handler has ended only when writer.close() was       *)
(* called.                                                                 *)
(***************************************************************************)
C3_EndsClosed == pc = "done" => closed

\* handler ended through a failure while writing the error response
C3_Witness ==
    /\ pc = "done"
    /\ closed
    /\ Len(raised) = 2
    /\ raised[1].type = "HTTPError"
    /\ raised[2].type = "ConnectionResetError"
    /\ raised[2].at = "drain"

(***************************************************************************)
(* C4.  As claimed: a header block in which a second Host line is read     *)
(* fails with EntityTooLarge and the connection gets a 413 response.       *)
(***************************************************************************)
SecondHostRead ==
    \E i, j \in 1..Len(FieldLinesRead) :
        i < j /\ FieldLinesRead[i] = HostLine /\ FieldLinesRead[j] = HostLine

NoHostBlockRead ==
    /\ ValidTokens(request.tokens)
    /\ TerminatorAt # 0
    /\ \A i \in 1..Len(FieldLinesRead) :
           FieldLinesRead[i] \in (WellFormedLines \ {HostLine})

C5_MissingHostAnswered413 ==
    NoHostBlockRead
        => /\ Len(reads) = TerminatorAt
           /\ body = <<>>
           /\ buffer \o peer = request.body
           /\ pc \in {"except", "drain", "finally", "done"}
           /\ \A i \in 1..Len(written) : RespStatus(written[i]) # HTTP_200_OK
           /\ pc = "done" => /\ Len(written) = 1
                             /\ IsErrorResponse(written[1], HTTP_413_ENTITY_TOO_LARGE)

\* a block of header lines without Host was answered; the body bytes that
\* followed it were never read
C5_Witness ==
    /\ pc = "done"
    /\ NoHostBlockRead
    /\ Len(FieldLinesRead) >= 1
    /\ request.body # <<>>
    /\ Len(written) = 1

(***************************************************************************)
(* C6.  With a valid request line and valid headers, a Content-Length      *)
(* value that is no non-empty string of decimal digits fails with          *)
(* BadRequest and the connection gets a 400 response.  The test of line    *)
(* 183 never fails, so the code raises ValueError from int() (no response) *)
(* or takes a negative length for "no body" (a 200 response).              *)
(***************************************************************************)
C6_BadLengthAnswered400 ==
    (/\ pc = "done"
     /\ ValidTokens(request.tokens)
     /\ TerminatorAt # 0
     /\ has_host_header
     /\ ~StrIsDigit(GetHeader(headers, ContentLengthName, <<"0">>)))
        => /\ Len(written) = 1
           /\ IsErrorResponse(written[1], HTTP_400_BAD_REQUEST)

(***************************************************************************)
(* C7.  In every 200 response, what follows the first blank line of the    *)
(* bytes written is exactly the JSON echo, and the response's              *)
(* Content-Length is the byte length of that JSON.  The code passes a      *)
(* second, complete response head together with the JSON to send_response  *)
(* as the body, so the entity is that head and the JSON, and               *)
(* Content-Length counts both.                                             *)
(***************************************************************************)
C7_SuccessEntityIsJson ==
    \A i \in 1..Len(written) :
        RespStatus(written[i]) = HTTP_200_OK
            => /\ RespEntity(written[i]) = EchoJson
               /\ RespHeader(written[i], ContentLengthName) = {Str(Len(EchoJson))}

(***************************************************************************)
(* C8.  Every error response handler writes is the status line of the      *)
(* failing status, Content-Length: 0, Connection: close, a blank line and   *)
(* no body; send_response builds that for each of 400, 413 and 500.        *)
(***************************************************************************)
ErrorStatuses ==
    {HTTP_400_BAD_REQUEST, HTTP_413_ENTITY_TOO_LARGE, HTTP_500_INTERNAL_SERVER_ERROR}

\* send_response with no body, for each error status
SendResponseShape ==
    \A code \in ErrorStatuses : IsErrorResponse(ResponseBytes(code, <<>>), code)

C8_ErrorResponseShape ==
    /\ \A i \in 1..Len(written) :
           RespStatus(written[i]) # HTTP_200_OK
               => /\ FirstHTTPError.status \in ErrorStatuses
                  /\ IsErrorResponse(written[i], FirstHTTPError.status)
    /\ SendResponseShape

\* a 400 error response was written and the connection is not closed yet
C8_Witness ==
    /\ pc = "drain"
    /\ in_except
    /\ Len(written) = 1
    /\ IsErrorResponse(written[1], HTTP_400_BAD_REQUEST)

(***************************************************************************)
(* C9.  read_request_line, once its line is read, succeeds exactly when    *)
(* the line is three space-separated tokens, the first one of the six      *)
(* methods and the third HTTP/1.1; it then returns that method and the     *)
(* second token unchanged as the path; in every other case it fails with   *)
(* BadRequest.  The code decodes the path, and a path that is no UTF-8     *)
(* makes it fail with UnicodeDecodeError instead.                          *)
(***************************************************************************)
C9_RequestLineOutcome ==
    Len(reads) >= 1
        => IF /\ Len(request.tokens) = 3
              /\ request.tokens[1] \in HTTPMethod
              /\ request.tokens[3] = <<"H", "T", "T", "P", "/", "1", ".", "1">>
           THEN /\ request_line = [method |-> request.tokens[1],
                                   version |-> VersionText,
                                   path |-> request.tokens[2]]
                /\ \A i \in 1..Len(raised) : raised[i].at # "read_request_line"
           ELSE /\ request_line = None
                /\ raised # <<>>
                /\ raised[1] = [type |-> "HTTPError", status |-> HTTP_400_BAD_REQUEST,
                                at |-> "read_request_line"]

(***************************************************************************)
(* C10.  For a valid request whose headers declare Content-Length N > 0    *)
(* and whose stream holds at least N bytes after the blank line, read_body *)
(* returns exactly the first N of those bytes and leaves the rest unread,  *)
(* and the body field of the 200 response is those N bytes as text.        *)
(***************************************************************************)
LengthLines == {NumericLengthLine(n) : n \in NumericLengths} \cup BadLengthLines

\* the request is valid and each Content-Length line of its block declares n
Declares(n) ==
    /\ ValidTokens(request.tokens)
    /\ \A i \in 1..Len(request.block) : request.block[i] \in WellFormedLines
    /\ Cardinality({i \in 1..Len(request.block) : request.block[i] = HostLine}) = 1
    /\ {request.block[i] : i \in 1..Len(request.block)} \cap LengthLines
           = {NumericLengthLine(n)}

\* the bytes the peer has delivered
Delivered == Len(Wire(request)) - Len(peer)

RECURSIVE JsonUnescape(_)
JsonUnescape(s) ==
    IF s = <<>> THEN <<>>
    ELSE IF Head(s) = "\\" /\ Len(s) >= 2
    THEN <<CASE s[2] = "n" -> LF [] s[2] = "r" -> CR [] s[2] = "t" -> "\t" [] OTHER -> s[2]>>
             \o JsonUnescape(Drop(s, 2))
    ELSE <<Head(s)>> \o JsonUnescape(Tail(s))

BodyMarker == <<"\"", "b", "o", "d", "y", "\"", ":", " ">>

\* the text of the body field of the JSON object a response ends with
JsonBodyField(resp) ==
    LET from == Find(resp, BodyMarker) + Len(BodyMarker)
    IN  JsonUnescape(SubSeq(resp, from + 1, Len(resp) - 2))

NoLengthDeclared ==
    /\ ValidTokens(request.tokens)
    /\ \A i \in 1..Len(request.block) : request.block[i] \in WellFormedLines
    /\ Cardinality({i \in 1..Len(request.block) : request.block[i] = HostLine}) = 1
    /\ {request.block[i] : i \in 1..Len(request.block)} \cap LengthLines
           \subseteq {NumericLengthLine(0)}

C11_NoLengthBodyIsNone ==
    (NoLengthDeclared /\ TerminatorAt # 0)
        => /\ Len(reads) = TerminatorAt
           /\ body = <<>>
           /\ body_length = 0
           /\ buffer \o peer = request.body
           /\ \A i \in 1..Len(raised) : raised[i].type = "ConnectionResetError"
           /\ \A i \in 1..Len(written) :
                  /\ RespStatus(written[i]) = HTTP_200_OK
                  /\ JsonBodyField(written[i]) = <<"$", "N", "O", "N", "E">>
           /\ pc = "done" => Len(written) = 1

\* no Content-Length line, three bytes after the blank line: the 200 response
\* was written and the three bytes were never read
C11_Witness ==
    /\ pc = "done"
    /\ NoLengthDeclared
    /\ \A i \in 1..Len(request.block) : request.block[i] \notin LengthLines
    /\ request.body = PlainBody(3)
    /\ buffer \o peer = PlainBody(3)
    /\ Len(written) = 1
    /\ JsonBodyField(written[1]) = <<"$", "N", "O", "N", "E">>

(***************************************************************************)
(* C12.  As claimed: for a header block with exactly one Host line, the    *)
(* header map read_headers returns (and so the body length and the         *)
(* response, which depend on the block only through it) is the same for    *)
(* every permutation of the block's lines.  A block in which a name other  *)
(* than host occurs with two values breaks this: the later value wins.     *)
(***************************************************************************)
\* every order of the lines of block
Reorderings(block) ==
    {[i \in 1..Len(block) |-> block[f[i]]] : f \in Permutations(1..Len(block))}

OneHostBlock ==
    /\ \A i \in 1..Len(request.block) : request.block[i] \in WellFormedLines
    /\ Cardinality({i \in 1..Len(request.block) : request.block[i] = HostLine}) = 1

\* read_headers has just returned the header map of the request's block
HeadersReturned == pc = "content_length" /\ ValidTokens(request.tokens)

C12_AnyOrderSameHeaders ==
    (HeadersReturned /\ OneHostBlock)
        => \A p \in Reorderings(request.block) :
               HeadersOfBlock(p) = [exc |-> NoExc, headers |-> headers]

(***************************************************************************)
(* C12, amended.  For a header block of accepted lines with exactly one    *)
(* Host line in which no header name occurs with two different values,     *)
(* the header map read_headers returns is the same for every permutation   *)
(* of the block's lines, and so is the Content-Length the handler takes    *)
(* from it.  What read_headers did on the connection is what the function  *)
(* of the block gives, for the map and for the error alike.                *)
(***************************************************************************)
NoConflictingNames ==
    \A i, j \in 1..Len(request.block) :
        ParseFieldLine(request.block[i]).name = ParseFieldLine(request.block[j]).name
            => ParseFieldLine(request.block[i]).value = ParseFieldLine(request.block[j]).value

C12_AnyOrderSameHeadersUnlessConflict ==
    /\ (HeadersReturned /\ OneHostBlock /\ NoConflictingNames)
           => \A p \in Reorderings(request.block) :
                  /\ HeadersOfBlock(p) = [exc |-> NoExc, headers |-> headers]
                  /\ GetHeader(HeadersOfBlock(p).headers, ContentLengthName, <<"0">>)
                         = GetHeader(headers, ContentLengthName, <<"0">>)
    /\ HeadersReturned
           => HeadersOfBlock(request.block) = [exc |-> NoExc, headers |-> headers]
    /\ (pc = "except" /\ raised[1].at = "read_headers" /\ exc.type = "HTTPError")
           => HeadersOfBlock(request.block).exc = exc

\* a block of three lines, Host in the middle and a Content-Length line last,
\* was read to its blank line
C12_Witness ==
    /\ HeadersReturned
    /\ OneHostBlock
    /\ NoConflictingNames
    /\ Len(request.block) = 3
    /\ request.block[2] = HostLine
    /\ request.block[3] = NumericLengthLine(2)
    /\ DOMAIN headers = {HostName, ContentLengthName, <<"x">>}

(***************************************************************************)
(* C13.  read_headers fails with BadRequest on a header line, other than   *)
(* the blank line, that has no ':' byte, or whose name or value is empty   *)
(* after trimming, or whose name or value is no UTF-8 text: that line is   *)
(* the last thing read from the stream, the failure is an HTTPError of     *)
(* status 400 raised in read_headers, no 200 response is written, and the  *)
(* one response the connection gets is the 400 error response.             *)
(***************************************************************************)
MalformedLineRead ==
    \E i \in 1..Len(FieldLinesRead) : FieldLinesRead[i] \in MalformedLines

C13_MalformedLineAnswered400 ==
    MalformedLineRead
        => /\ TerminatorAt = 0
           /\ \A i \in 1..(Len(FieldLinesRead) - 1) : FieldLinesRead[i] \notin MalformedLines
           /\ pc \in {"except", "drain", "finally", "done"}
           /\ raised[1] = [type |-> "HTTPError", status |-> HTTP_400_BAD_REQUEST,
                           at |-> "read_headers"]
           /\ \A i \in 2..Len(raised) : raised[i].type = "ConnectionResetError"
           /\ body = <<>>
           /\ \A i \in 1..Len(written) : IsErrorResponse(written[i], HTTP_400_BAD_REQUEST)
           /\ pc \in {"drain", "finally", "done"} => Len(written) = 1

\* a line with an empty value came third in its block and was answered
C13_Witness ==
    /\ pc = "done"
    /\ MalformedLineRead
    /\ Len(FieldLinesRead) = 3
    /\ FieldLinesRead[3] = EmptyValueLine
    /\ Len(written) = 1
    /\ IsErrorResponse(written[1], HTTP_400_BAD_REQUEST)

(***************************************************************************)
(* C14.  handler moves through its stages only forward, in the order       *)
(* AwaitRequestLine, AwaitHeaders, AwaitBody, BuildResponse, Closed, or    *)
(* from any of them to Error and then Closed: no step takes it to an       *)
(* earlier stage, nothing happens on the connection once it is Closed, and *)
(* a request line is only ever read as the first thing read, so bytes that *)
(* follow the first request are never parsed as a second one.              *)
(***************************************************************************)
\* the stage of the specification's state machine handler is in, by its order
Stage ==
    CASE pc = "read_request_line" -> 1                    \* AwaitRequestLine
      [] pc = "read_headers" -> 2                         \* AwaitHeaders
      [] pc \in {"content_length", "read_body"} -> 3      \* AwaitBody
      [] pc = "respond" -> 4                              \* BuildResponse
      [] pc = "drain" /\ ~in_except -> 4
      [] pc = "except" -> 5                               \* Error
      [] pc = "drain" /\ in_except -> 5
      [] pc \in {"finally", "done"} -> 6                  \* Closed

C14_StagesOnlyForward ==
    [][/\ Stage' >= Stage
       /\ pc # "done"
       /\ pc = "read_request_line" => reads = <<>>
       /\ pc' = "read_request_line" => pc = "read_request_line"
       /\ reads' # reads => /\ pc \in {"read_request_line", "read_headers", "read_body"}
                            /\ Len(reads') = Len(reads) + 1
                            /\ (pc = "read_body") = (TerminatorAt # 0)
                            /\ TerminatorAt # 0 => Len(reads) = TerminatorAt]_vars

\* a complete second request followed the first on the stream: the first was
\* answered, the connection is closed and the second was never read
C14_Witness ==
    /\ pc = "done"
    /\ closed
    /\ request.body = PipelinedBody
    /\ request.block = <<HostLine>>
    /\ Len(reads) = 3
    /\ Len(written) = 1
    /\ RespStatus(written[1]) = HTTP_200_OK
    /\ buffer \o peer = PipelinedBody
    /\ buffer # <<>>

(***************************************************************************)
(* C15.  Once a parsing stage (the request line, the header block, the     *)
(* Content-Length, the body) has failed on a connection, no later stage    *)
(* runs: from then on handler reads nothing more from the stream and       *)
(* no 200 response is ever written.  A failed request line means that no   *)
(* header line was read, a failed header block that no body was read.      *)
(***************************************************************************)
ParsingStages == {"read_request_line", "read_headers", "content_length", "read_body"}

ParsingFailed == raised # <<>> /\ raised[1].at \in ParsingStages

C15_FailureAbortsPipeline ==
    [][/\ ParsingFailed
          => /\ reads' = reads
             /\ buffer' = buffer
             /\ body' = <<>>
             /\ pc' \in {"drain", "finally", "done"}
             /\ \A i \in 1..Len(written') : RespStatus(written'[i]) # HTTP_200_OK
       /\ ParsingFailed'
          => /\ raised'[1].at = "read_request_line" => Len(reads') <= 1
             /\ raised'[1].at = "read_headers"
                   => (TerminatorAt' = 0 \/ Len(reads') = TerminatorAt')
             /\ raised'[1].at \in {"content_length", "read_body"}
                   => Len(reads') = TerminatorAt']_vars

\* a header block failed while body bytes were already in the buffer: they
\* were never read, and the one response is an error response
C15_Witness ==
    /\ pc = "done"
    /\ ParsingFailed
    /\ raised[1].at = "read_headers"
    /\ raised[1].type = "HTTPError"
    /\ request.body # <<>>
    /\ buffer = request.body
    /\ Len(written) = 1
    /\ RespStatus(written[1]) # HTTP_200_OK

(***************************************************************************)
(* C16.  When read_headers has accepted a block, the header map has one    *)
(* entry for each name that occurs on a line of the block, and its value   *)
(* is that of the last line with the name; with several Content-Length     *)
(* lines, the body length handler passes to read_body is the last one's.   *)
(***************************************************************************)
\* the index in the header lines read of the last line with the name
LastLineNamed(name) ==
    CHOOSE i \in 1..Len(FieldLinesRead) :
        /\ ParseFieldLine(FieldLinesRead[i]).name = name
        /\ \A j \in (i + 1)..Len(FieldLinesRead) :
               ParseFieldLine(FieldLinesRead[j]).name # name

\* read_headers has returned
BlockAccepted == TerminatorAt # 0 /\ has_host_header

C16_LastOccurrenceWins ==
    BlockAccepted
        => /\ DOMAIN headers
                 = {ParseFieldLine(FieldLinesRead[i]).name : i \in 1..Len(FieldLinesRead)}
           /\ \A name \in DOMAIN headers :
                  headers[name] = ParseFieldLine(FieldLinesRead[LastLineNamed(name)]).value
           /\ (/\ pc \in {"read_body", "respond"}
               /\ ContentLengthName \in DOMAIN headers)
                  => /\ ParseInt(ParseFieldLine(
                            FieldLinesRead[LastLineNamed(ContentLengthName)]).value).ok
                     /\ body_length
                          = ParseInt(ParseFieldLine(
                                FieldLinesRead[LastLineNamed(ContentLengthName)]).value).val
                     /\ pc = "respond" => Len(body) = IF body_length > 0 THEN body_length ELSE 0

\* content-length:0 came first and Content-Length: 2 last: two bytes were read
C16_Witness ==
    /\ BlockAccepted
    /\ FieldLinesRead = <<NumericLengthLine(0), HostLine, NumericLengthLine(2)>>
    /\ pc = "respond"
    /\ headers[ContentLengthName] = <<"2">>
    /\ body_length = 2
    /\ body = PlainBody(2)

(***************************************************************************)
(* C17.  As claimed, a handler task ends only by success, by a protocol    *)
(* error caught and reported, or by the stream ending during a read:       *)
(* a handler that has ended wrote the 200 response, or wrote the error     *)
(* response of an HTTPError raised by a parsing stage, or met the end of   *)
(* the stream in a read.  The code also ends by exceptions it never        *)
(* classifies: ValueError from int() on a Content-Length that is no number *)
(* and UnicodeDecodeError from a path or body that is no UTF-8.            *)
(***************************************************************************)
EndedBySuccess == Len(written) = 1 /\ RespStatus(written[1]) = HTTP_200_OK

EndedByReportedError ==
    /\ \E i \in 1..Len(raised) : raised[i].type = "HTTPError"
    /\ Len(written) = 1
    /\ IsErrorResponse(written[1], FirstHTTPError.status)

EndedByStreamEnd == \E i \in 1..Len(raised) : raised[i].type = "IncompleteReadError"

C17_EndsOnlyAsSpecified ==
    pc = "done" => (EndedBySuccess \/ EndedByReportedError \/ EndedByStreamEnd)

(***************************************************************************)
(* C17, the parts the code keeps.  While handler is suspended in a read    *)
(* and the peer has not ended the stream, no step of handler is taken:     *)
(* only the peer acts, and nothing is written or closed (no timeout).  And *)
(* when the peer, whenever handler is suspended, goes on to deliver bytes  *)
(* or to end the stream, handler eventually ends with the connection       *)
(* closed.                                                                 *)
(***************************************************************************)
C17_SuspendedUntilPeerActs ==
    [][(Suspended /\ ~eof)
          => /\ pc' = pc
             /\ written' = written
             /\ closed' = closed
             /\ raised' = raised
             /\ reads' = reads]_vars

\* what is left to do on the connection: bytes the peer may still send, the
\* end of the stream it may still signal, bytes left to read, steps of handler
PcRank ==
    CASE pc = "read_request_line" -> 1
      [] pc = "read_headers" -> 2
      [] pc = "content_length" -> 3
      [] pc = "read_body" -> 4
      [] pc = "respond" -> 5
      [] pc = "except" -> 6
      [] pc = "drain" -> 7
      [] pc = "finally" -> 8
      [] pc = "done" -> 9

Remaining ==
    (ChunkLen + 1) * Len(peer) + Len(buffer) + (IF eof THEN 0 ELSE 1) + (9 - PcRank)

\* every step of the peer or of handler brings the end nearer, so no
\* connection is worked on forever
C17_EveryStepNearerTheEnd == [][Remaining' < Remaining /\ Remaining' >= 0]_vars

(***************************************************************************)
(* C18.  With several connections handled at once, in every interleaving   *)
(* of their reads, writes and closes, what is written to a connection and  *)
(* its closing depend only on what that connection received: a task that   *)
(* has ended has closed its connection and has written what handler writes *)
(* for its request when handled alone (nothing, if its stream ended in a   *)
(* read), and a task that has not ended has written that or nothing yet;   *)
(* whatever the other connections sent, stalled on or failed with.         *)
(***************************************************************************)
\* what the task writes in all, by what its own connection received
OutcomeOf(task) == IF task.eof THEN <<>> ELSE HandleAlone(task.request)

AsAlone(task) ==
    /\ (task.written # <<>> \/ task.pc = "done") => task.written = OutcomeOf(task)
    /\ task.closed = (task.pc = "done")

C18_EachConnectionAsAlone ==
    /\ AsAlone(Task)
    /\ \A c \in DOMAIN waiting : AsAlone(waiting[c])

\* one connection stalls in its body and its peer sends nothing more, while
\* the other was answered 200 and closed
C18_Witness ==
    /\ pc = "done"
    /\ closed
    /\ Len(written) = 1
    /\ RespStatus(written[1]) = HTTP_200_OK
    /\ \E c \in DOMAIN waiting :
           /\ waiting[c].pc = "read_body"
           /\ waiting[c].peer = <<>>
           /\ ~waiting[c].eof
           /\ Len(waiting[c].buffer) < waiting[c].body_length
           /\ ~waiting[c].closed

(***************************************************************************)
(* C19.  The checks of read_headers are made in stream order and the       *)
(* status reported is that of the first that fails.  A malformed line or   *)
(* a second Host line fails with 400 when that line is read, and nothing   *)
(* after it is read.  The missing-Host failure (413) is raised only once   *)
(* the blank line was read, for a block all of whose lines were accepted.  *)
(* So a block without Host that holds a malformed line is answered with    *)
(* the malformed line's 400, and a stream that ends before the blank line  *)
(* is never answered as missing Host: nothing is written for it.           *)
(***************************************************************************)
\* the first line of the request's block that is malformed or a second Host
\* line, 0 if there is none
FirstBadLine ==
    LET bad == {i \in 1..Len(request.block) :
                   \/ request.block[i] \in MalformedLines
                   \/ /\ request.block[i] = HostLine
                      /\ \E j \in 1..(i - 1) : request.block[j] = HostLine}
    IN  IF bad = {} THEN 0 ELSE CHOOSE i \in bad : \A j \in bad : i <= j

HeadersFailures ==
    {i \in 1..Len(raised) : raised[i].type = "HTTPError" /\ raised[i].at = "read_headers"}

C19_FirstFailureInStreamOrder ==
    /\ \A i \in HeadersFailures :
           /\ i = 1
           /\ IF FirstBadLine # 0
              THEN /\ raised[i].status = HTTP_400_BAD_REQUEST
                   /\ TerminatorAt = 0
                   /\ Len(FieldLinesRead) = FirstBadLine
              ELSE /\ raised[i].status = HTTP_413_ENTITY_TOO_LARGE
                   /\ TerminatorAt # 0
                   /\ Len(reads) = TerminatorAt
                   /\ FieldLinesRead = request.block
                   /\ \A j \in 1..Len(request.block) : request.block[j] # HostLine
           /\ \A j \in 1..Len(written) : IsErrorResponse(written[j], raised[i].status)
           /\ pc \in {"drain", "finally", "done"} => Len(written) = 1
    /\ (FirstBadLine # 0 /\ Len(FieldLinesRead) >= FirstBadLine) => HeadersFailures = {1}
    /\ (\E i \in 1..Len(raised) :
            raised[i].type = "IncompleteReadError" /\ raised[i].at = "read_headers")
           => /\ TerminatorAt = 0
              /\ HeadersFailures = {}
              /\ written = <<>>

\* a block without Host whose third line has no colon: the answer is 400
C19_Witness ==
    /\ pc = "done"
    /\ request.block = <<OtherLine, NumericLengthLine(2), NoColonLine>>
    /\ HeadersFailures = {1}
    /\ Len(written) = 1
    /\ IsErrorResponse(written[1], HTTP_400_BAD_REQUEST)

(***************************************************************************)
(* C20.  In every reachable state at most one response has been written    *)
(* to the connection.  A response is written only once an HTTPError was    *)
(* raised (and then it is an error response) or once the request was read  *)
(* in full: the blank line of a block with Host, and the body of the       *)
(* length taken from the headers (and then it is the 200 response).        *)
(* Nothing is written after the connection was closed.                     *)
(***************************************************************************)
\* the request line, the header block and the declared body were read
RequestFullyRead ==
    /\ request_line # None
    /\ TerminatorAt # 0
    /\ has_host_header
    /\ IF body_length > 0
       THEN /\ Len(reads) = TerminatorAt + 1
            /\ reads[Len(reads)] = body
            /\ Len(body) = body_length
       ELSE Len(reads) = TerminatorAt /\ body = <<>>

AtMostOneResponse ==
    /\ Len(written) <= 1
    /\ \A i \in 1..Len(written) :
           IF RespStatus(written[i]) = HTTP_200_OK
           THEN /\ RequestFullyRead
                /\ \A j \in 1..Len(raised) : raised[j].type = "ConnectionResetError"
           ELSE /\ raised # <<>>
                /\ raised[1].type = "HTTPError"
                /\ raised[1].at \in {"read_request_line", "read_headers"}
    /\ closed => pc = "done"

C20_AtMostOneResponse ==
    [][/\ AtMostOneResponse
       /\ AtMostOneResponse'
       /\ Len(written') >= Len(written)
       /\ written # <<>> => written' = written
       /\ closed => written' = written]_vars

\* the 200 response was written, flushing it failed, and the connection was
\* closed with that one response written
C20_Witness ==
    /\ pc = "done"
    /\ closed
    /\ Len(written) = 1
    /\ RespStatus(written[1]) = HTTP_200_OK
    /\ raised # <<>>
    /\ raised[1].type = "ConnectionResetError"

=============================================================================
